---- MODULE Spec2Model ----
(***************************************************************************)
(* GearGuard: the maintenance-request lifecycle of the backend             *)
(* (controllers/requestController.js, the routes' role gates, the          *)
(* Mongoose schemas) together with the direct equipment edit of            *)
(* equipmentController.updateEquipment.  One action per HTTP handler; the  *)
(* variable `last` records the handler that ran last, the HTTP status it   *)
(* answered with and the request it wrote.                                 *)
(***************************************************************************)
EXTENDS Integers, FiniteSets, Sequences, TLC

VARIABLES
  equipment,   \* the Equipment collection: id -> document
  requests,    \* the MaintenanceRequest collection: id -> document
  nextId,      \* the id the next created request gets
  last,        \* the handler that answered last, its status, and the request
               \* it wrote (0 when it wrote none)
  view,        \* the data of the last answer of a read handler: a set of
               \* request ids or of auto-fill records ({} after a write)
  inflight,    \* the handler invocations that have started and wait at an
               \* `await`: slot -> the invocation's local variables
  client,      \* the browser: the session's user, the page that is mounted,
               \* the React state of the Kanban board and of the request
               \* detail page, and the stage-update calls it has sent
  teams        \* team membership: MaintenanceTeam.members of every team and
               \* User.team of every user

vars == <<equipment, requests, nextId, last, view, inflight, client, teams>>

(***************************************************************************)
(* Bounds                                                                  *)
(***************************************************************************)
\* number of request documents that can ever be created
MaxRequests == 1

\* number of handler invocations that can be in progress at the same time
MaxCalls == 2

(***************************************************************************)
(* Values                                                                  *)
(***************************************************************************)
\* a field that the JSON body does not carry (JavaScript undefined)
Absent == "absent"
\* JavaScript null
Null == "null"
\* a string that is no member of the stage enum
BogusStage == "Bogus"
\* an equipment id that names no document
NoSuchEquipment == "E9"

Stages == {"New", "In Progress", "Repaired", "Scrap"}

Users == {"admin", "manager", "tech", "user"}

\* the users that send createRequest
Creators == {"manager", "user"}

\* the role stored in each user document
RoleOf(u) ==
  CASE u = "admin" -> "Admin"
    [] u = "manager" -> "Manager"
    [] u = "tech" -> "Technician"
    [] OTHER -> "User"

EquipIds == {"E1", "E2"}

ReqIds == 1..MaxRequests

\* the slots of the invocations in progress
Slots == 1..MaxCalls

\* a slot that holds no invocation
Idle == [op |-> "idle"]

\* HTTP status codes the handlers answer with
Created == 201
Ok == 200
BadRequest == 400
Forbidden == 403
NotFound == 404
ServerError == 500

(***************************************************************************)
(* Role gates                                                              *)
(***************************************************************************)
\* middleware roleAuth(...roles): passes when the actor's role is listed
roleAuth(roles, actor) == RoleOf(actor) \in roles

\* a gate that lets every role through
anyRole(actor) == TRUE

\* permissions.adminAndManager
adminAndManager(actor) == roleAuth({"Admin", "Manager"}, actor)

\* a gate that goes by the role alone and lets every Technician through
canUpdateByRole(actor, request) ==
  RoleOf(actor) \in {"Admin", "Manager", "Technician"}

\* the controller's own gate of updateRequest and updateRequestStage:
\* isAssignedTechnician = request.assignedTechnician?.toString() === req.user._id
\* canUpdate = ['Admin','Manager'].includes(role) || isAssignedTechnician
canUpdate(actor, request) ==
  \/ RoleOf(actor) \in {"Admin", "Manager"}
  \/ request.assignedTechnician = actor

(***************************************************************************)
(* The Kanban board's transition graph (frontend)                          *)
(***************************************************************************)
validTransitions(fromStage) ==
  CASE fromStage = "New" -> {"In Progress"}
    [] fromStage = "In Progress" -> {"Repaired"}
    [] fromStage = "Repaired" -> {}
    [] OTHER -> {}

\* a check that lets a card leave every stage but Scrap for any column
anyTransition(fromStage, toStage) == fromStage # "Scrap"

isValidTransition(fromStage, toStage) ==
  IF fromStage = "Scrap" THEN FALSE
  ELSE IF toStage = "Scrap" THEN TRUE
  ELSE toStage \in validTransitions(fromStage)

(***************************************************************************)
(* Schemas                                                                 *)
(***************************************************************************)
\* maintenanceRequestSchema.stage: enum validation
stageValid(stage) == stage \in Stages

\* maintenanceRequestSchema.stage: default 'New' when the field is undefined
stageDefault(stage) == IF stage = Absent THEN "New" ELSE stage

\* a date field that is undefined or null; a date at instant t is <<t>>
NoDate == << >>

\* maintenanceRequestSchema.scheduledDate: default null
dateDefault(date) == IF date = NoDate THEN NoDate ELSE date

\* the instant of a date
instant(date) == date[1]

\* Equipment exists (findById returns a document)
Exists(e) == e \in DOMAIN equipment

\* MaintenanceRequest.findById returns a document
Present(r) == r \in DOMAIN requests

(***************************************************************************)
(* The browser's state and the team membership before the first step       *)
(***************************************************************************)
\* useState({ isOpen: false, requestId: null, fromStage: '' }) of the board
noScrapDialog == [isOpen |-> FALSE, requestId |-> 0, fromStage |-> ""]

\* useState(null) of the detail page's request
noRequest == [id |-> 0, stage |-> ""]

\* nobody is logged in: no page is mounted and no component state exists
loggedOut == [user |-> Null, page |-> "login", calls |-> << >>]

\* the state of the components as useState creates it, right after the
\* login: no page of requests is mounted, no call has been sent
clientInit ==
  [user |-> Null, page |-> "login",
   board |-> << >>, scrapDialog |-> noScrapDialog,
   request |-> noRequest, stageModal |-> FALSE, selectedStage |-> "",
   scrapWarningDialog |-> FALSE,
   calls |-> << >>]

\* the teams and the users whose membership is edited
Teams == {"T1", "T2"}
TeamUsers == {"tech", "user", "user2"}

\* the seeded membership: the technician belongs to T1, in both directions
teamsInit ==
  [members |-> [t \in Teams |-> IF t = "T1" THEN <<"tech">> ELSE << >>],
   userTeam |-> [u \in TeamUsers |-> IF u = "tech" THEN "T1" ELSE Null]]

(***************************************************************************)
(* Initial state: two active pieces of equipment, no request               *)
(***************************************************************************)
Init ==
  /\ equipment = [e \in EquipIds |->
       IF e = "E1"
       THEN [isActive |-> TRUE, category |-> "c1", maintenanceTeam |-> "T1",
             defaultTechnician |-> "tech", ownershipType |-> "Department",
             department |-> "d1", assignedEmployee |-> Null]
       ELSE [isActive |-> TRUE, category |-> "c2", maintenanceTeam |-> "T2",
             defaultTechnician |-> "tech", ownershipType |-> "Department",
             department |-> "d1", assignedEmployee |-> Null]]
  /\ requests = << >>
  /\ nextId = 1
  /\ last = [op |-> "init", id |-> 0, status |-> 0]
  /\ view = {}
  /\ inflight = [s \in Slots |-> Idle]
  /\ client = loggedOut
  /\ teams = teamsInit

\* res.status(status).json(...) of a handler that returns no list
Answer(op, id, status) ==
  /\ last' = [op |-> op, id |-> id, status |-> status]
  /\ view' = {}

\* the answer of a handler that runs from its first statement to its answer
\* in one step and is called from outside the modelled browser: the
\* invocations that wait at an `await`, the browser and the teams stay
Respond(op, id, status) ==
  /\ Answer(op, id, status)
  /\ UNCHANGED <<inflight, client, teams>>

\* res.status(status).json({ data }) of a read handler
RespondData(op, status, data) ==
  /\ last' = [op |-> op, id |-> 0, status |-> status]
  /\ view' = data
  /\ UNCHANGED <<inflight, client, teams>>


(***************************************************************************)
(* createRequest  (POST /api/requests, every authenticated user)           *)
(***************************************************************************)
\* a JavaScript value that `||` treats as given
Truthy(v) == v \notin {Absent, Null}

\* the request bodies tried: the required fields alone, the required fields
\* plus assignedTechnician or stage, and the required fields plus the three
\* fields the controller sets itself; `valid` says whether the fields
\* the schema requires (subject, requestType) are present and well-formed.
\* No body carries a priority: the schema's default 'Medium' is stored.
BaseBody(e) ==
  [equipment |-> e, assignedTechnician |-> Absent, stage |-> Absent,
   equipmentCategory |-> Absent, maintenanceTeam |-> Absent,
   createdBy |-> Absent, requestType |-> "Corrective",
   scheduledDate |-> NoDate, valid |-> TRUE]

CreateBodies ==
  {BaseBody(NoSuchEquipment)} \cup
  UNION {
    {BaseBody(e), [BaseBody(e) EXCEPT !.valid = FALSE]}
    \cup {[BaseBody(e) EXCEPT !.assignedTechnician = u] : u \in {"tech", "user", Null}}
    \cup {[BaseBody(e) EXCEPT !.stage = s] : s \in Stages \cup {BogusStage}}
    \cup {[BaseBody(e) EXCEPT !.equipmentCategory = "c1", !.maintenanceTeam = "T1",
                              !.createdBy = "admin"],
          [BaseBody(e) EXCEPT !.equipmentCategory = "c2", !.maintenanceTeam = "T2",
                              !.createdBy = "user"]}
    : e \in EquipIds }

\* the document with the body's fields spread after the controller's own
createDocBodyLast(body, equip, actor) ==
  [equipment |-> body.equipment,
   equipmentCategory |->
     IF body.equipmentCategory = Absent THEN equip.category
     ELSE body.equipmentCategory,
   maintenanceTeam |->
     IF body.maintenanceTeam = Absent THEN equip.maintenanceTeam
     ELSE body.maintenanceTeam,
   assignedTechnician |->
     IF body.assignedTechnician = Absent THEN equip.defaultTechnician
     ELSE body.assignedTechnician,
   createdBy |-> IF body.createdBy = Absent THEN actor ELSE body.createdBy,
   stage |-> stageDefault(body.stage),
   requestType |-> body.requestType,
   priority |-> "Medium",
   scheduledDate |-> dateDefault(body.scheduledDate)]

\* the document handed to MaintenanceRequest.create: the body's fields, then
\* the fields the controller sets, which replace the body's
createDoc(body, equip, actor) ==
  [equipment |-> body.equipment,
   equipmentCategory |-> equip.category,
   maintenanceTeam |-> equip.maintenanceTeam,
   assignedTechnician |->
     IF Truthy(body.assignedTechnician) THEN body.assignedTechnician
     ELSE equip.defaultTechnician,
   createdBy |-> actor,
   stage |-> stageDefault(body.stage),
   requestType |-> body.requestType,
   priority |-> "Medium",
   scheduledDate |-> dateDefault(body.scheduledDate)]

\* the equipment check without the isActive test
equipmentCheckExistsOnly(e) == IF ~Exists(e) THEN NotFound ELSE Ok

\* the equipment check of createRequest: the status it answers with, or Ok
\* when the check passes
equipmentCheck(e) ==
  IF ~Exists(e) THEN NotFound
  ELSE IF ~equipment[e].isActive THEN BadRequest
  ELSE Ok

CreateRequest(actor, body) ==
  LET e == body.equipment
      chk == equipmentCheck(e)
  IN
  IF chk # Ok
  THEN /\ Respond("createRequest", 0, chk)
       /\ UNCHANGED <<equipment, requests, nextId>>
  ELSE LET doc == createDoc(body, equipment[e], actor) IN
       IF ~(body.valid /\ stageValid(doc.stage))
       THEN \* Mongoose validation throws; the catch block answers 500
            /\ Respond("createRequest", 0, ServerError)
            /\ UNCHANGED <<equipment, requests, nextId>>
       ELSE /\ nextId <= MaxRequests
            /\ requests' = (nextId :> doc) @@ requests
            /\ nextId' = nextId + 1
            /\ Respond("createRequest", nextId, Created)
            /\ UNCHANGED equipment

(***************************************************************************)
(* updateRequest  (PUT /api/requests/:id)                                  *)
(***************************************************************************)
\* the bodies tried: { stage } with the first stage, the last stage and a
\* value outside the enum, and { assignedTechnician }
UpdateBodies ==
  {[field |-> "stage", value |-> s] : s \in {"New", "Scrap", BogusStage}}
  \cup {[field |-> "assignedTechnician", value |-> u] : u \in {"tech", "user"}}

\* bodies that carry one of the fields createRequest fills in itself
SnapshotBodies ==
  {[field |-> "createdBy", value |-> "tech"],
   [field |-> "equipmentCategory", value |-> "c2"],
   [field |-> "maintenanceTeam", value |-> "T2"]}

\* Object.assign(request, req.body)
assign(request, body) == [request EXCEPT ![body.field] = body.value]

UpdateRequest(actor, id, body) ==
  IF ~Present(id)
  THEN /\ Respond("updateRequest", 0, NotFound)
       /\ UNCHANGED <<equipment, requests, nextId>>
  ELSE IF ~canUpdate(actor, requests[id])
  THEN /\ Respond("updateRequest", 0, Forbidden)
       /\ UNCHANGED <<equipment, requests, nextId>>
  ELSE LET doc == assign(requests[id], body) IN
       IF ~stageValid(doc.stage)
       THEN /\ Respond("updateRequest", 0, ServerError)
            /\ UNCHANGED <<equipment, requests, nextId>>
       ELSE /\ requests' = [requests EXCEPT ![id] = doc]
            /\ Respond("updateRequest", id, Ok)
            /\ UNCHANGED <<equipment, nextId>>

(***************************************************************************)
(* updateRequestStage  (PATCH /api/requests/:id/stage)                     *)
(***************************************************************************)
StageInputs == {"New", "In Progress", "Repaired", "Scrap", BogusStage, Absent}

\* the stage inputs that pass the 'Stage is required.' check
GivenStages == {"New", "In Progress", "Repaired", "Scrap", BogusStage}

\* an update that flips isActive
deactivateToggle(eq, e) ==
  IF Exists(e) THEN [eq EXCEPT ![e].isActive = ~@] ELSE eq

\* Equipment.findByIdAndUpdate(id, { isActive: false }): no document, no write
deactivate(eq, e) ==
  IF Exists(e) THEN [eq EXCEPT ![e].isActive = FALSE] ELSE eq

\* the Scrap branch never taken (the comparison misses the enum's spelling)
scrapCascadeNever(eq, request, stage) == eq

\* the equipment collection after the Scrap branch of updateRequestStage
scrapCascade(eq, request, stage) ==
  IF stage = "Scrap" THEN deactivate(eq, request.equipment) ELSE eq

\* the handler's reads, writes and answer
updateRequestStage(actor, id, stage) ==
  IF stage = Absent
  THEN /\ Answer("updateStage", 0, BadRequest)
       /\ UNCHANGED <<equipment, requests, nextId>>
  ELSE IF ~Present(id)
  THEN /\ Answer("updateStage", 0, NotFound)
       /\ UNCHANGED <<equipment, requests, nextId>>
  ELSE IF ~canUpdate(actor, requests[id])
  THEN /\ Answer("updateStage", 0, Forbidden)
       /\ UNCHANGED <<equipment, requests, nextId>>
  ELSE /\ equipment' = scrapCascade(equipment, requests[id], stage)
       /\ IF stageValid(stage)
          THEN /\ requests' = [requests EXCEPT ![id].stage = stage]
               /\ Answer("updateStage", id, Ok)
          ELSE \* request.save() rejects the stage; the catch block answers 500
               /\ requests' = requests
               /\ Answer("updateStage", 0, ServerError)
       /\ UNCHANGED nextId

\* the handler called by an actor outside the modelled browser
UpdateRequestStage(actor, id, stage) ==
  /\ updateRequestStage(actor, id, stage)
  /\ UNCHANGED <<inflight, client, teams>>

(***************************************************************************)
(* assignTechnician  (PATCH /api/requests/:id/assign, Admin and Manager)   *)
(***************************************************************************)
TechnicianInputs == {"tech", "user", Absent}

\* an update that also puts the request back to the first stage
assignedToAndReset(request, technicianId) ==
  [request EXCEPT !.assignedTechnician = technicianId, !.stage = "New"]

\* findByIdAndUpdate(id, { assignedTechnician: technicianId })
assignedTo(request, technicianId) ==
  [request EXCEPT !.assignedTechnician = technicianId]

AssignTechnician(actor, id, technicianId) ==
  IF ~adminAndManager(actor)
  THEN /\ Respond("assignTechnician", 0, Forbidden)
       /\ UNCHANGED <<equipment, requests, nextId>>
  ELSE IF ~Truthy(technicianId)
  THEN /\ Respond("assignTechnician", 0, BadRequest)
       /\ UNCHANGED <<equipment, requests, nextId>>
  ELSE IF ~Present(id)
  THEN /\ Respond("assignTechnician", 0, NotFound)
       /\ UNCHANGED <<equipment, requests, nextId>>
  ELSE /\ requests' = [requests EXCEPT ![id] = assignedTo(@, technicianId)]
       /\ Respond("assignTechnician", id, Ok)
       /\ UNCHANGED <<equipment, nextId>>

(***************************************************************************)
(* deleteRequest  (DELETE /api/requests/:id, Admin and Manager)            *)
(***************************************************************************)
DeleteRequest(actor, id) ==
  IF ~adminAndManager(actor)
  THEN /\ Respond("deleteRequest", 0, Forbidden)
       /\ UNCHANGED <<equipment, requests, nextId>>
  ELSE IF ~Present(id)
  THEN /\ Respond("deleteRequest", 0, NotFound)
       /\ UNCHANGED <<equipment, requests, nextId>>
  ELSE /\ requests' = [r \in DOMAIN requests \ {id} |-> requests[r]]
       /\ Respond("deleteRequest", id, Ok)
       /\ UNCHANGED <<equipment, nextId>>

(***************************************************************************)
(* updateEquipment  (PUT /api/equipment/:id, Admin and Manager)            *)
(***************************************************************************)
\* the bodies tried: { isActive: true } and { isActive: false }
EquipmentBodies == {[isActive |-> b] : b \in BOOLEAN}

\* the patches of the ownership fields tried
OwnershipPatches ==
  {[ownershipType |-> "Employee"], [ownershipType |-> "Department"],
   [ownershipType |-> "Team"], [department |-> ""],
   [assignedEmployee |-> "user"], [assignedEmployee |-> Null]}

\* the validate functions of department and assignedEmployee, with the
\* ownershipType that `this` carries: false when the field's own ownership
\* type is given and the value is falsy
ownershipRule(thisOwnershipType, field, value) ==
  IF field = "department"
  THEN ~(thisOwnershipType = "Department" /\ value \in {"", Null})
  ELSE IF field = "assignedEmployee"
  THEN ~(thisOwnershipType = "Employee" /\ value \in {"", Null})
  ELSE TRUE

\* runValidators on findByIdAndUpdate: the validators of the paths that the
\* update names, run with `this` bound to the query, which has no
\* ownershipType; the enum of ownershipType is checked as on a save
updateValid(body) ==
  \A f \in DOMAIN body :
    /\ ownershipRule(Absent, f, body[f])
    /\ f = "ownershipType" => body[f] \in {"Department", "Employee"}

\* Equipment.findByIdAndUpdate(id, req.body): the fields of the body replace
\* the document's
equipmentUpdate(doc, body) ==
  [f \in DOMAIN doc |-> IF f \in DOMAIN body THEN body[f] ELSE doc[f]]

UpdateEquipment(actor, e, body) ==
  IF ~adminAndManager(actor)
  THEN /\ Respond("updateEquipment", 0, Forbidden)
       /\ UNCHANGED <<equipment, requests, nextId>>
  ELSE IF ~Exists(e)
  THEN /\ Respond("updateEquipment", 0, NotFound)
       /\ UNCHANGED <<equipment, requests, nextId>>
  ELSE IF ~updateValid(body)
  THEN \* the update validators throw; the catch block answers 500
       /\ Respond("updateEquipment", 0, ServerError)
       /\ UNCHANGED <<equipment, requests, nextId>>
  ELSE /\ equipment' = [equipment EXCEPT ![e] = equipmentUpdate(equipment[e], body)]
       /\ Respond("updateEquipment", 0, Ok)
       /\ UNCHANGED <<requests, nextId>>

(***************************************************************************)
(* createEquipment  (POST /api/equipment, Admin and Manager)               *)
(***************************************************************************)
\* the id of the equipment that createEquipment stores
NewEquipId == "E3"

\* the bodies tried: the required fields with every ownership type, with
\* department absent, empty or given and assignedEmployee absent or given
EquipmentCreateBodies ==
  [ownershipType : {"Department", "Employee"},
   department : {Absent, "", "d1"},
   assignedEmployee : {Absent, "user"}]

\* the document handed to Equipment.create: assignedEmployee defaults to null
equipmentDoc(body) ==
  [isActive |-> TRUE, category |-> "c1", maintenanceTeam |-> "T1",
   defaultTechnician |-> "tech", ownershipType |-> body.ownershipType,
   department |-> body.department,
   assignedEmployee |->
     IF body.assignedEmployee = Absent THEN Null ELSE body.assignedEmployee]

\* validation on save: a validate function runs on every path whose value is
\* not undefined, with `this` bound to the document
createValid(doc) ==
  /\ doc.department # Absent =>
       ownershipRule(doc.ownershipType, "department", doc.department)
  /\ ownershipRule(doc.ownershipType, "assignedEmployee", doc.assignedEmployee)

CreateEquipment(actor, body) ==
  IF ~adminAndManager(actor)
  THEN /\ Respond("createEquipment", 0, Forbidden)
       /\ UNCHANGED <<equipment, requests, nextId>>
  ELSE IF ~createValid(equipmentDoc(body))
  THEN /\ Respond("createEquipment", 0, ServerError)
       /\ UNCHANGED <<equipment, requests, nextId>>
  ELSE /\ NewEquipId \notin DOMAIN equipment
       /\ equipment' = (NewEquipId :> equipmentDoc(body)) @@ equipment
       /\ Respond("createEquipment", 0, Created)
       /\ UNCHANGED <<requests, nextId>>

(***************************************************************************)
(* Dates and the users of the read handlers                                *)
(***************************************************************************)
\* instants are integers; a calendar day holds DayLen of them
DayLen == 2

\* setHours(0, 0, 0, 0): the first instant of the day of t
startOfDay(t) == t - (t % DayLen)

\* the instants at which the overdue handlers read the clock
Clock == {3, 4}

\* the actors of the read handlers: the four seeded users and a second user
\* whose role is User
ViewUsers == Users \cup {"user2"}

\* the users that send createRequest in the specification of the reads
ViewCreators == {"manager", "user2"}

\* user.team, written by addTeamMember: the technician is a member of T1
TeamOf(u) == IF u = "tech" THEN "T1" ELSE Null

\* the request bodies of the specification of the listing: the required
\* fields alone, with a technician, and with the other request type
ListBodies ==
  UNION { {BaseBody(e), [BaseBody(e) EXCEPT !.assignedTechnician = "user"]}
          : e \in EquipIds }
  \cup { [BaseBody("E1") EXCEPT !.requestType = "Preventive"] }

\* the stages that the specification of the listing moves requests to
ListStages == {"In Progress", "Repaired"}

\* the request bodies of the specification of the schedule: the required
\* fields alone, and a request type with or without a scheduled date
ScheduleBodies ==
  { BaseBody("E1"),
    [BaseBody("E2") EXCEPT !.assignedTechnician = "user"],
    [BaseBody("E1") EXCEPT !.requestType = "Preventive"],
    [BaseBody("E1") EXCEPT !.requestType = "Preventive",
                           !.scheduledDate = <<1>>],
    [BaseBody("E2") EXCEPT !.scheduledDate = <<2>>] }

(***************************************************************************)
(* getAllRequests  (GET /api/requests, every authenticated user)           *)
(***************************************************************************)
\* the query strings tried: every filter absent or given
Queries ==
  [stage : {Absent, "New"}, priority : {Absent, "Medium"},
   requestType : {Absent, "Preventive"}, equipmentId : {Absent, "E1"},
   technicianId : {Absent, "tech"}]

\* the query string without any filter
NoQuery ==
  [stage |-> Absent, priority |-> Absent, requestType |-> Absent,
   equipmentId |-> Absent, technicianId |-> Absent]

\* a listing without the role-based part of the filter
roleFilterNone(actor, r) == TRUE

\* the role-based part of the Mongo filter: createdBy for a User, the $or of
\* assignedTechnician and maintenanceTeam for a Technician, nothing otherwise
roleFilter(actor, r) ==
  IF RoleOf(actor) = "User" THEN r.createdBy = actor
  ELSE IF RoleOf(actor) = "Technician"
  THEN r.assignedTechnician = actor \/ r.maintenanceTeam = TeamOf(actor)
  ELSE TRUE

\* the additional filters: each query parameter that is given must match
queryFilter(query, r) ==
  /\ Truthy(query.stage) => r.stage = query.stage
  /\ Truthy(query.priority) => r.priority = query.priority
  /\ Truthy(query.requestType) => r.requestType = query.requestType
  /\ Truthy(query.equipmentId) => r.equipment = query.equipmentId
  /\ Truthy(query.technicianId) => r.assignedTechnician = query.technicianId

\* MaintenanceRequest.find(filter)
getAllRequests(actor, query) ==
  {id \in DOMAIN requests :
     roleFilter(actor, requests[id]) /\ queryFilter(query, requests[id])}

GetAllRequests(actor, query) ==
  /\ RespondData("getAllRequests", Ok, getAllRequests(actor, query))
  /\ UNCHANGED <<equipment, requests, nextId>>

(***************************************************************************)
(* getRequestById  (GET /api/requests/:id, every authenticated user)       *)
(***************************************************************************)
\* an access check that lets every actor through
canViewAny(actor, request) == TRUE

\* the access check of getRequestById: a User reads only what they created
canView(actor, request) ==
  ~(RoleOf(actor) = "User" /\ request.createdBy # actor)

GetRequestById(actor, id) ==
  /\ IF ~Present(id)
     THEN RespondData("getRequestById", NotFound, {})
     ELSE IF ~canView(actor, requests[id])
     THEN RespondData("getRequestById", Forbidden, {})
     ELSE RespondData("getRequestById", Ok, {id})
  /\ UNCHANGED <<equipment, requests, nextId>>

(***************************************************************************)
(* getCalendarRequests  (GET /api/requests/calendar, every authenticated   *)
(* user)                                                                   *)
(***************************************************************************)
\* the query strings tried: startDate and endDate absent or given
Ranges == [startDate : {NoDate, <<2>>}, endDate : {NoDate, <<2>>}]

\* the query string without startDate and endDate
NoRange == [startDate |-> NoDate, endDate |-> NoDate]

\* { scheduledDate: { $ne: null, $gte: startDate, $lte: endDate } }
calendarFilter(range, r) ==
  /\ r.scheduledDate # NoDate
  /\ range.startDate # NoDate =>
       instant(r.scheduledDate) >= instant(range.startDate)
  /\ range.endDate # NoDate =>
       instant(r.scheduledDate) <= instant(range.endDate)

getCalendarRequests(actor, range) ==
  {id \in DOMAIN requests :
     calendarFilter(range, requests[id]) /\ roleFilter(actor, requests[id])}

GetCalendarRequests(actor, range) ==
  /\ RespondData("getCalendarRequests", Ok, getCalendarRequests(actor, range))
  /\ UNCHANGED <<equipment, requests, nextId>>

(***************************************************************************)
(* getOverdueRequests  (GET /api/requests/overdue, Admin, Manager and      *)
(* Technician) and the virtual isOverdue                                   *)
(***************************************************************************)
\* permissions.adminManagerTechnician
adminManagerTechnician(actor) ==
  roleAuth({"Admin", "Manager", "Technician"}, actor)

\* the virtual isOverdue of the schema, read at the instant now
isOverdue(r, now) ==
  IF r.scheduledDate = NoDate THEN FALSE
  ELSE IF r.stage = "Repaired" \/ r.stage = "Scrap" THEN FALSE
  ELSE startOfDay(instant(r.scheduledDate)) < startOfDay(now)

\* a filter that compares the scheduled date with the clock itself
overdueFilterNow(r, now) ==
  /\ r.scheduledDate # NoDate
  /\ instant(r.scheduledDate) < now
  /\ r.stage \notin {"Repaired", "Scrap"}

\* { scheduledDate: { $lt: today }, stage: { $nin: ['Repaired', 'Scrap'] } };
\* $lt matches no document whose scheduledDate is null
overdueFilter(r, now) ==
  /\ r.scheduledDate # NoDate
  /\ instant(r.scheduledDate) < startOfDay(now)
  /\ r.stage \notin {"Repaired", "Scrap"}

\* the role-based part of the overdue filter: the $or for a Technician
overdueRoleFilter(actor, r) ==
  RoleOf(actor) = "Technician" =>
    (r.assignedTechnician = actor \/ r.maintenanceTeam = TeamOf(actor))

getOverdueRequests(actor, now) ==
  {id \in DOMAIN requests :
     overdueFilter(requests[id], now) /\ overdueRoleFilter(actor, requests[id])}

GetOverdueRequests(actor, now) ==
  /\ IF ~adminManagerTechnician(actor)
     THEN RespondData("getOverdueRequests", Forbidden, {})
     ELSE RespondData("getOverdueRequests", Ok, getOverdueRequests(actor, now))
  /\ UNCHANGED <<equipment, requests, nextId>>

(***************************************************************************)
(* getEquipmentAutoFill  (GET /api/equipment/:id/auto-fill, every          *)
(* authenticated user)                                                     *)
(***************************************************************************)
\* the data of a successful answer
autoFillData(doc) ==
  [equipmentCategory |-> doc.category, maintenanceTeam |-> doc.maintenanceTeam,
   defaultTechnician |-> doc.defaultTechnician]

\* an auto-fill check without the isActive test
autoFillCheckExistsOnly(e) == IF ~Exists(e) THEN NotFound ELSE Ok

\* the checks of getEquipmentAutoFill: the status it answers with
autoFillCheck(e) ==
  IF ~Exists(e) THEN NotFound
  ELSE IF ~equipment[e].isActive THEN BadRequest
  ELSE Ok

GetEquipmentAutoFill(actor, e) ==
  /\ IF autoFillCheck(e) # Ok
     THEN RespondData("getEquipmentAutoFill", autoFillCheck(e), {})
     ELSE RespondData("getEquipmentAutoFill", Ok, {autoFillData(equipment[e])})
  /\ UNCHANGED <<equipment, requests, nextId>>

(***************************************************************************)
(* The handlers step by step: an async handler gives the event loop to     *)
(* other invocations at every `await`                                      *)
(***************************************************************************)
\* the id of a request that is stored before the first step
SeedId == 0

\* the state after one createRequest for E1 has been answered
InitSeeded ==
  /\ equipment = [e \in EquipIds |->
       IF e = "E1"
       THEN [isActive |-> TRUE, category |-> "c1", maintenanceTeam |-> "T1",
             defaultTechnician |-> "tech", ownershipType |-> "Department",
             department |-> "d1", assignedEmployee |-> Null]
       ELSE [isActive |-> TRUE, category |-> "c2", maintenanceTeam |-> "T2",
             defaultTechnician |-> "tech", ownershipType |-> "Department",
             department |-> "d1", assignedEmployee |-> Null]]
  /\ requests = (SeedId :> createDoc(BaseBody("E1"), equipment["E1"], "manager"))
  /\ nextId = 1
  /\ last = [op |-> "createRequest", id |-> SeedId, status |-> Created]
  /\ view = {}
  /\ inflight = [s \in Slots |-> Idle]
  /\ client = loggedOut
  /\ teams = teamsInit

\* a new invocation takes the first slot that holds none
FirstFree(slot) ==
  /\ inflight[slot] = Idle
  /\ \A s \in Slots : s < slot => inflight[s] # Idle

\* createRequest up to `await MaintenanceRequest.create`: the equipment is
\* read and checked; the invocation keeps the document it read
CreateBegin(slot, actor, body) ==
  /\ FirstFree(slot)
  /\ IF equipmentCheck(body.equipment) # Ok
     THEN /\ Respond("createRequest", 0, equipmentCheck(body.equipment))
          /\ UNCHANGED <<equipment, requests, nextId>>
     ELSE /\ inflight' = [inflight EXCEPT ![slot] =
               [op |-> "createRequest", actor |-> actor, body |-> body,
                equip |-> equipment[body.equipment]]]
          /\ UNCHANGED <<equipment, requests, nextId, last, view, client, teams>>

\* createRequest from MaintenanceRequest.create to the answer
CreateFinish(slot) ==
  /\ inflight[slot].op = "createRequest"
  /\ LET c == inflight[slot]
         doc == createDoc(c.body, c.equip, c.actor)
     IN IF ~(c.body.valid /\ stageValid(doc.stage))
        THEN /\ last' = [op |-> "createRequest", id |-> 0, status |-> ServerError]
             /\ UNCHANGED <<requests, nextId>>
        ELSE /\ nextId <= MaxRequests
             /\ requests' = (nextId :> doc) @@ requests
             /\ nextId' = nextId + 1
             /\ last' = [op |-> "createRequest", id |-> nextId, status |-> Created]
  /\ inflight' = [inflight EXCEPT ![slot] = Idle]
  /\ view' = {}
  /\ UNCHANGED <<equipment, client, teams>>

\* updateRequestStage up to the first write: the stage is required, the
\* request is read and the gate is checked on the document that was read
StageBegin(slot, actor, id, stage) ==
  /\ FirstFree(slot)
  /\ IF stage = Absent
     THEN /\ Respond("updateStage", 0, BadRequest)
          /\ UNCHANGED <<equipment, requests, nextId>>
     ELSE IF ~Present(id)
     THEN /\ Respond("updateStage", 0, NotFound)
          /\ UNCHANGED <<equipment, requests, nextId>>
     ELSE IF ~canUpdate(actor, requests[id])
     THEN /\ Respond("updateStage", 0, Forbidden)
          /\ UNCHANGED <<equipment, requests, nextId>>
     ELSE /\ inflight' = [inflight EXCEPT ![slot] =
               [op |-> "updateStage", id |-> id, stage |-> stage,
                request |-> requests[id],
                pc |-> IF stage = "Scrap" THEN "deactivate" ELSE "save"]]
          /\ UNCHANGED <<equipment, requests, nextId, last, view, client, teams>>

\* an invocation that goes on to the stage write without the equipment write
StageDeactivateSkipped(slot) ==
  /\ inflight[slot].op = "updateStage"
  /\ inflight[slot].pc = "deactivate"
  /\ inflight' = [inflight EXCEPT ![slot].pc = "save"]
  /\ UNCHANGED <<equipment, requests, nextId, last, view, client, teams>>

\* await Equipment.findByIdAndUpdate(request.equipment, { isActive: false })
StageDeactivate(slot) ==
  /\ inflight[slot].op = "updateStage"
  /\ inflight[slot].pc = "deactivate"
  /\ equipment' = scrapCascade(equipment, inflight[slot].request,
                               inflight[slot].stage)
  /\ inflight' = [inflight EXCEPT ![slot].pc = "save"]
  /\ UNCHANGED <<requests, nextId, last, view, client, teams>>

\* the equipment write throws: the catch block answers 500
StageDeactivateFails(slot) ==
  /\ inflight[slot].op = "updateStage"
  /\ inflight[slot].pc = "deactivate"
  /\ inflight' = [inflight EXCEPT ![slot] = Idle]
  /\ last' = [op |-> "updateStage", id |-> 0, status |-> ServerError]
  /\ view' = {}
  /\ UNCHANGED <<equipment, requests, nextId, client, teams>>

\* request.stage = stage; await request.save(): the stage is validated and
\* written to the stored document; then the answer
StageSave(slot) ==
  /\ inflight[slot].op = "updateStage"
  /\ inflight[slot].pc = "save"
  /\ LET c == inflight[slot]
     IN IF stageValid(c.stage) /\ Present(c.id)
        THEN /\ requests' = [requests EXCEPT ![c.id].stage = c.stage]
             /\ last' = [op |-> "updateStage", id |-> c.id, status |-> Ok]
        ELSE /\ requests' = requests
             /\ last' = [op |-> "updateStage", id |-> 0, status |-> ServerError]
  /\ inflight' = [inflight EXCEPT ![slot] = Idle]
  /\ view' = {}
  /\ UNCHANGED <<equipment, nextId, client, teams>>

\* the process stops after the equipment write and before the stage write
StageStop(slot) ==
  /\ inflight[slot].op = "updateStage"
  /\ inflight[slot].pc = "save"
  /\ inflight[slot].stage = "Scrap"
  /\ inflight' = [inflight EXCEPT ![slot] = Idle]
  /\ UNCHANGED <<equipment, requests, nextId, last, view, client, teams>>

(***************************************************************************)
(* The frontend: the permission helpers, the Kanban board and the request  *)
(* detail page.  A stage-update call the browser has sent stays in         *)
(* client.calls, in the order of sending, until its promise is settled and *)
(* its continuation has run                                                *)
(***************************************************************************)
\* utils/rolePermissions.js
isAdmin(userRole) == userRole = "Admin"

isAdminOrManager(userRole) == userRole \in {"Admin", "Manager"}

canEditMaintenanceRequest(userRole) == isAdminOrManager(userRole)

canDeleteMaintenanceRequest(userRole) == isAdmin(userRole)

canAssignTechnician(userRole) == isAdminOrManager(userRole)

canUpdateStage(userRole) == isAdminOrManager(userRole)

\* the users that log in to the browser
SessionUsers == {"manager", "tech"}

\* AuthContext.login: setUser(newUser)
Login(user) ==
  /\ client.user = Null
  /\ client' = [clientInit EXCEPT !.user = user]
  /\ UNCHANGED <<equipment, requests, nextId, last, view, inflight, teams>>

\* no call of the browser is outstanding
settled == client.calls = << >>

\* the Kanban page is mounted: useEffect -> fetchRequests -> setRequests(data).
\* The user leaves a page when the calls it has sent are settled
OpenKanban ==
  /\ client.user # Null
  /\ settled
  /\ client' = [clientInit EXCEPT
       !.user = client.user, !.page = "kanban",
       !.board = [id \in getAllRequests(client.user, NoQuery) |->
                    requests[id].stage]]
  /\ UNCHANGED <<equipment, requests, nextId, last, view, inflight, teams>>

\* the detail page of request id is mounted (handleCardClick navigates to
\* it): useEffect -> fetchRequest; a failed fetch leaves request = null
OpenDetail(id) ==
  /\ client.user # Null
  /\ settled
  /\ client' = [clientInit EXCEPT
       !.user = client.user, !.page = "detail",
       !.request = IF Present(id) /\ canView(client.user, requests[id])
                   THEN [id |-> id, stage |-> requests[id].stage]
                   ELSE noRequest,
       !.selectedStage = IF Present(id) /\ canView(client.user, requests[id])
                         THEN requests[id].stage ELSE ""]
  /\ UNCHANGED <<equipment, requests, nextId, last, view, inflight, teams>>

\* a call can be sent while fewer than MaxCalls calls are outstanding
canSend == Len(client.calls) < MaxCalls

\* requestAPI.updateRequestStage(id, newStage) is called: the call is
\* outstanding; oldStage is the stage the page held when it sent the call
sendCall(calls, origin, id, oldStage, newStage) ==
  Append(calls, [origin |-> origin, id |-> id, oldStage |-> oldStage,
                 newStage |-> newStage, state |-> "sent"])

\* the outstanding calls without the call at position slot
completed(calls, slot) ==
  [i \in 1..(Len(calls) - 1) |-> IF i < slot THEN calls[i] ELSE calls[i + 1]]

\* setRequests(prev => prev.map(req => req._id === requestId
\*                                       ? { ...req, stage } : req))
setStage(board, id, stage) ==
  [r \in DOMAIN board |-> IF r = id THEN stage ELSE board[r]]

\* canDrag of the Kanban page
canDrag(user) == canUpdateStage(RoleOf(user))

\* the board's updateRequestStage up to its `await`: the optimistic update,
\* then the call
kanbanUpdate(c, id, oldStage, newStage) ==
  [c EXCEPT !.board = setStage(c.board, id, newStage),
            !.calls = sendCall(c.calls, "kanban", id, oldStage, newStage)]

\* a drop handler that sends the call for Scrap like any other stage
HandleDragEndNoDialog(id, newStage) ==
  /\ client.page = "kanban"
  /\ canDrag(client.user)
  /\ id \in DOMAIN client.board
  /\ client.board[id] # "Scrap"
  /\ LET oldStage == client.board[id]
     IN IF oldStage = newStage
        THEN UNCHANGED client
        ELSE IF ~isValidTransition(oldStage, newStage)
        THEN UNCHANGED client  \* a toast: "Cannot move from ... to ..."
        ELSE /\ canSend
             /\ client' = kanbanUpdate(client, id, oldStage, newStage)
  /\ UNCHANGED <<equipment, requests, nextId, last, view, inflight, teams>>

\* handleDragEnd: the card of request id is dropped on the column newStage.
\* Cards are draggable when canDrag() holds and their column is not Scrap
HandleDragEnd(id, newStage) ==
  /\ client.page = "kanban"
  /\ canDrag(client.user)
  /\ id \in DOMAIN client.board
  /\ client.board[id] # "Scrap"
  /\ LET oldStage == client.board[id]
     IN IF oldStage = newStage
        THEN UNCHANGED client
        ELSE IF ~isValidTransition(oldStage, newStage)
        THEN UNCHANGED client  \* a toast: "Cannot move from ... to ..."
        ELSE IF newStage = "Scrap"
        THEN client' = [client EXCEPT !.scrapDialog =
               [isOpen |-> TRUE, requestId |-> id, fromStage |-> oldStage]]
        ELSE /\ canSend
             /\ client' = kanbanUpdate(client, id, oldStage, newStage)
  /\ UNCHANGED <<equipment, requests, nextId, last, view, inflight, teams>>

\* confirmScrapMove: the Confirm button of the board's scrap dialog
ConfirmScrapMove ==
  /\ client.page = "kanban"
  /\ client.scrapDialog.isOpen
  /\ canSend
  /\ client' = [kanbanUpdate(client, client.scrapDialog.requestId,
                             client.scrapDialog.fromStage, "Scrap")
                  EXCEPT !.scrapDialog = noScrapDialog]
  /\ UNCHANGED <<equipment, requests, nextId, last, view, inflight, teams>>

\* onClose of the board's scrap dialog: Cancel or the backdrop
CloseScrapDialog ==
  /\ client.page = "kanban"
  /\ client.scrapDialog.isOpen
  /\ client' = [client EXCEPT !.scrapDialog = noScrapDialog]
  /\ UNCHANGED <<equipment, requests, nextId, last, view, inflight, teams>>

\* the "Update Stage" button of the detail page, rendered when
\* canUpdateStage(user.role)
OpenStageModal ==
  /\ client.page = "detail"
  /\ client.request # noRequest
  /\ canUpdateStage(RoleOf(client.user))
  /\ ~client.stageModal
  /\ client' = [client EXCEPT !.stageModal = TRUE]
  /\ UNCHANGED <<equipment, requests, nextId, last, view, inflight, teams>>

\* onChange of the modal's select, whose options are all four stages
SelectStage(stage) ==
  /\ client.page = "detail"
  /\ client.stageModal
  /\ client.selectedStage # stage
  /\ client' = [client EXCEPT !.selectedStage = stage]
  /\ UNCHANGED <<equipment, requests, nextId, last, view, inflight, teams>>

\* handleStageChange(selectedStage): the modal's "Update Stage" button;
\* updateStage up to its `await` sends the call
HandleStageChange ==
  /\ client.page = "detail"
  /\ client.stageModal
  /\ IF client.selectedStage = "Scrap"
     THEN client' = [client EXCEPT !.scrapWarningDialog = TRUE]
     ELSE /\ canSend
          /\ client' = [client EXCEPT !.calls =
               sendCall(client.calls, "detail", client.request.id,
                        client.request.stage, client.selectedStage)]
  /\ UNCHANGED <<equipment, requests, nextId, last, view, inflight, teams>>

\* confirmScrapUpdate: the Confirm button of the detail page's scrap warning
ConfirmScrapUpdate ==
  /\ client.page = "detail"
  /\ client.scrapWarningDialog
  /\ canSend
  /\ client' = [client EXCEPT
       !.scrapWarningDialog = FALSE,
       !.calls = sendCall(client.calls, "detail", client.request.id,
                          client.request.stage, "Scrap")]
  /\ UNCHANGED <<equipment, requests, nextId, last, view, inflight, teams>>

\* onClose of the detail page's scrap warning
CloseScrapWarning ==
  /\ client.page = "detail"
  /\ client.scrapWarningDialog
  /\ client' = [client EXCEPT !.scrapWarningDialog = FALSE]
  /\ UNCHANGED <<equipment, requests, nextId, last, view, inflight, teams>>

\* the backend handles an outstanding call, in any order among the
\* outstanding ones; axios resolves the promise on a 2xx answer and rejects
\* it on every other
ServeCall(slot) ==
  /\ slot \in DOMAIN client.calls
  /\ client.calls[slot].state = "sent"
  /\ updateRequestStage(client.user, client.calls[slot].id,
                        client.calls[slot].newStage)
  /\ client' = [client EXCEPT !.calls[slot].state =
                  IF last'.status = Ok THEN "resolved" ELSE "rejected"]
  /\ UNCHANGED <<inflight, teams>>

\* the call does not reach the backend (network error): axios rejects
LoseCall(slot) ==
  /\ slot \in DOMAIN client.calls
  /\ client.calls[slot].state = "sent"
  /\ client' = [client EXCEPT !.calls[slot].state = "rejected"]
  /\ UNCHANGED <<equipment, requests, nextId, last, view, inflight, teams>>

\* the board's updateRequestStage after its `await`: nothing to the board
\* when the call succeeded, the rollback to oldStage in the catch block
KanbanComplete(slot) ==
  /\ slot \in DOMAIN client.calls
  /\ client.calls[slot].origin = "kanban"
  /\ client.calls[slot].state # "sent"
  /\ LET c == client.calls[slot]
     IN client' = [client EXCEPT
          !.board = IF c.state = "rejected"
                    THEN setStage(client.board, c.id, c.oldStage) ELSE @,
          !.calls = completed(@, slot)]
  /\ UNCHANGED <<equipment, requests, nextId, last, view, inflight, teams>>

\* the detail page's updateStage after its `await`: the modal is closed and
\* fetchRequest reloads the request when the call succeeded; a toast alone
\* in the catch block
DetailComplete(slot) ==
  /\ slot \in DOMAIN client.calls
  /\ client.calls[slot].origin = "detail"
  /\ client.calls[slot].state # "sent"
  /\ LET c == client.calls[slot]
         found == Present(c.id) /\ canView(client.user, requests[c.id])
     IN IF c.state = "resolved"
        THEN client' = [client EXCEPT
               !.stageModal = FALSE,
               !.request = IF found
                           THEN [id |-> c.id, stage |-> requests[c.id].stage]
                           ELSE @,
               !.selectedStage = IF found THEN requests[c.id].stage ELSE @,
               !.calls = completed(@, slot)]
        ELSE client' = [client EXCEPT !.calls = completed(@, slot)]
  /\ UNCHANGED <<equipment, requests, nextId, last, view, inflight, teams>>

(***************************************************************************)
(* Team membership  (POST /api/teams/:id/members and                       *)
(* DELETE /api/teams/:id/members/:userId, Admin and Manager)               *)
(***************************************************************************)
\* a team id and a user id that name no document
NoSuchTeam == "T9"
NoSuchUser == "ghost"

TeamInputs == Teams \cup {NoSuchTeam}
MemberInputs == TeamUsers \cup {NoSuchUser, Absent}
TeamActors == {"manager", "tech"}

\* team.members.includes(userId)
includes(members, userId) == \E i \in DOMAIN members : members[i] = userId

\* team.members.filter((memberId) => memberId.toString() !== userId)
filter(members, userId) ==
  LET keep(memberId) == memberId # userId IN SelectSeq(members, keep)

AddTeamMember(actor, team, userId) ==
  /\ IF ~adminAndManager(actor)
     THEN /\ Answer("addTeamMember", 0, Forbidden)
          /\ UNCHANGED teams
     ELSE IF userId = Absent
     THEN /\ Answer("addTeamMember", 0, BadRequest)
          /\ UNCHANGED teams
     ELSE IF userId \notin TeamUsers
     THEN /\ Answer("addTeamMember", 0, NotFound)
          /\ UNCHANGED teams
     ELSE IF team \notin Teams
     THEN /\ Answer("addTeamMember", 0, NotFound)
          /\ UNCHANGED teams
     ELSE IF includes(teams.members[team], userId)
     THEN /\ Answer("addTeamMember", 0, BadRequest)
          /\ UNCHANGED teams
     ELSE \* team.members.push(userId); team.save();
          \* user.team = team._id; user.save()
          /\ teams' = [teams EXCEPT
               !.members[team] = Append(@, userId),
               !.userTeam[userId] = team]
          /\ Answer("addTeamMember", 0, Ok)
  /\ UNCHANGED <<equipment, requests, nextId, inflight, client>>

RemoveTeamMember(actor, team, userId) ==
  /\ IF ~adminAndManager(actor)
     THEN /\ Answer("removeTeamMember", 0, Forbidden)
          /\ UNCHANGED teams
     ELSE IF team \notin Teams
     THEN /\ Answer("removeTeamMember", 0, NotFound)
          /\ UNCHANGED teams
     ELSE \* team.members = team.members.filter(...); team.save();
          \* User.findByIdAndUpdate(userId, { team: null }): no user, no write
          /\ teams' = [teams EXCEPT
               !.members[team] = filter(@, userId),
               !.userTeam = [u \in DOMAIN @ |->
                               IF u = userId THEN Null ELSE @[u]]]
          /\ Answer("removeTeamMember", 0, Ok)
  /\ UNCHANGED <<equipment, requests, nextId, inflight, client>>

(***************************************************************************)
(* Specifications                                                          *)
(***************************************************************************)
\* the request operations alone: no direct equipment edit
\* the actors of the steps: the Admin is left out, because roleAuth and
\* canUpdate list Admin wherever they list Manager, so that a step of the
\* Admin is a step of the Manager; the claims range over all Users
Callers == Users \ {"admin"}

NextRequests ==
  \/ \E actor \in Creators, body \in CreateBodies : CreateRequest(actor, body)
  \/ \E actor \in Callers, id \in ReqIds, body \in UpdateBodies :
       UpdateRequest(actor, id, body)
  \/ \E actor \in Callers, id \in ReqIds, stage \in StageInputs :
       UpdateRequestStage(actor, id, stage)
  \/ \E actor \in Callers, id \in ReqIds, t \in TechnicianInputs :
       AssignTechnician(actor, id, t)
  \/ \E actor \in Callers, id \in ReqIds : DeleteRequest(actor, id)

Next ==
  \/ NextRequests
  \/ \E actor \in Callers, e \in EquipIds \cup {NoSuchEquipment},
        body \in EquipmentBodies : UpdateEquipment(actor, e, body)

Spec == Init /\ [][Next]_vars

SpecRequests == Init /\ [][NextRequests]_vars

\* createRequest in steps against updateRequestStage on the stored request
NextCreateRace ==
  \/ \E slot \in Slots, actor \in Creators,
        body \in {BaseBody(e) : e \in EquipIds \cup {NoSuchEquipment}} :
       CreateBegin(slot, actor, body)
  \/ \E slot \in Slots : CreateFinish(slot)
  \/ \E actor \in Users, id \in {SeedId}, stage \in StageInputs :
       UpdateRequestStage(actor, id, stage)

SpecCreateRace == InitSeeded /\ [][NextCreateRace]_vars

\* the request bodies and the stages of the specifications of the steps
StepBodies == {BaseBody("E1"), [BaseBody("E2") EXCEPT !.assignedTechnician = "user"]}

StepStages == {"In Progress", "Scrap"}

\* updateRequestStage in steps, with a failing equipment write and a stop
\* between the two writes
NextStageSteps ==
  \/ \E actor \in {"manager"}, body \in StepBodies : CreateRequest(actor, body)
  \/ \E slot \in Slots, actor \in {"manager", "user"}, id \in ReqIds,
        stage \in StepStages : StageBegin(slot, actor, id, stage)
  \/ \E slot \in Slots : StageDeactivate(slot)
  \/ \E slot \in Slots : StageDeactivateFails(slot)
  \/ \E slot \in Slots : StageSave(slot)
  \/ \E slot \in Slots : StageStop(slot)

SpecStageSteps == Init /\ [][NextStageSteps]_vars

\* updateRequestStage in steps, every write succeeding
NextStageRace ==
  \/ \E actor \in {"manager"}, body \in StepBodies : CreateRequest(actor, body)
  \/ \E slot \in Slots, actor \in {"manager", "user"}, id \in ReqIds,
        stage \in StepStages : StageBegin(slot, actor, id, stage)
  \/ \E slot \in Slots : StageDeactivate(slot)
  \/ \E slot \in Slots : StageSave(slot)

SpecStageRace == Init /\ [][NextStageRace]_vars

\* the equipment create and update operations on the ownership fields
NextOwnership ==
  \/ \E actor \in Users, body \in EquipmentCreateBodies :
       CreateEquipment(actor, body)
  \/ \E actor \in Users, e \in {"E1", NewEquipId}, body \in OwnershipPatches :
       UpdateEquipment(actor, e, body)

SpecOwnership == Init /\ [][NextOwnership]_vars

\* the operations on stored requests and the equipment edit, with
\* updateRequest bodies that carry any field of the document
NextSnapshot ==
  \/ \E actor \in Creators, body \in CreateBodies : CreateRequest(actor, body)
  \/ \E actor \in Users, id \in ReqIds, body \in UpdateBodies \cup SnapshotBodies :
       UpdateRequest(actor, id, body)
  \/ \E actor \in Users, id \in ReqIds, stage \in StageInputs :
       UpdateRequestStage(actor, id, stage)
  \/ \E actor \in Users, id \in ReqIds, t \in TechnicianInputs :
       AssignTechnician(actor, id, t)
  \/ \E actor \in Users, e \in EquipIds, body \in EquipmentBodies :
       UpdateEquipment(actor, e, body)

SpecSnapshot == Init /\ [][NextSnapshot]_vars

\* the listing and the single-record fetch, over the requests that
\* createRequest and updateRequestStage produce
NextList ==
  \/ \E actor \in ViewCreators, body \in ListBodies : CreateRequest(actor, body)
  \/ \E actor \in Users, id \in ReqIds, stage \in ListStages :
       UpdateRequestStage(actor, id, stage)
  \/ \E actor \in ViewUsers, query \in Queries : GetAllRequests(actor, query)
  \/ \E actor \in ViewUsers, id \in ReqIds : GetRequestById(actor, id)

SpecList == Init /\ [][NextList]_vars

\* the calendar, the overdue listing and the auto-fill, over the requests
\* that createRequest and updateRequestStage produce
NextSchedule ==
  \/ \E actor \in ViewCreators, body \in ScheduleBodies :
       CreateRequest(actor, body)
  \/ \E actor \in Users, id \in ReqIds, stage \in StageInputs :
       UpdateRequestStage(actor, id, stage)
  \/ \E actor \in ViewUsers, range \in Ranges : GetCalendarRequests(actor, range)
  \/ \E actor \in ViewUsers, now \in Clock : GetOverdueRequests(actor, now)
  \/ \E actor \in ViewUsers, e \in EquipIds \cup {NoSuchEquipment} :
       GetEquipmentAutoFill(actor, e)

SpecSchedule == Init /\ [][NextSchedule]_vars

\* the browser of one user against the backend that stores the request
\* SeedId: the stage of the request is changed through the two pages alone
NextClient ==
  \/ \E user \in SessionUsers : Login(user)
  \/ OpenKanban
  \/ OpenDetail(SeedId)
  \/ \E stage \in Stages : HandleDragEnd(SeedId, stage)
  \/ ConfirmScrapMove
  \/ CloseScrapDialog
  \/ OpenStageModal
  \/ \E stage \in Stages : SelectStage(stage)
  \/ HandleStageChange
  \/ ConfirmScrapUpdate
  \/ CloseScrapWarning
  \/ \E slot \in Slots : ServeCall(slot)
  \/ \E slot \in Slots : KanbanComplete(slot)
  \/ \E slot \in Slots : DetailComplete(slot)

SpecClient == InitSeeded /\ [][NextClient]_vars

\* the Kanban board alone, with calls that can fail on the network
NextKanban ==
  \/ \E user \in SessionUsers : Login(user)
  \/ OpenKanban
  \/ \E stage \in Stages : HandleDragEnd(SeedId, stage)
  \/ ConfirmScrapMove
  \/ CloseScrapDialog
  \/ \E slot \in Slots : ServeCall(slot)
  \/ \E slot \in Slots : LoseCall(slot)
  \/ \E slot \in Slots : KanbanComplete(slot)

SpecKanban == InitSeeded /\ [][NextKanban]_vars

\* the request detail page alone, with calls that can fail on the network
NextDetail ==
  \/ \E user \in SessionUsers : Login(user)
  \/ OpenDetail(SeedId)
  \/ OpenStageModal
  \/ \E stage \in Stages : SelectStage(stage)
  \/ HandleStageChange
  \/ ConfirmScrapUpdate
  \/ CloseScrapWarning
  \/ \E slot \in Slots : ServeCall(slot)
  \/ \E slot \in Slots : LoseCall(slot)
  \/ \E slot \in Slots : DetailComplete(slot)

SpecDetail == InitSeeded /\ [][NextDetail]_vars

\* the membership operations alone
NextTeams ==
  \/ \E actor \in TeamActors, team \in TeamInputs, userId \in MemberInputs :
       AddTeamMember(actor, team, userId)
  \/ \E actor \in TeamActors, team \in TeamInputs,
        userId \in MemberInputs \ {Absent} :
       RemoveTeamMember(actor, team, userId)

SpecTeams == Init /\ [][NextTeams]_vars


(***************************************************************************)
(* Claims                                                                  *)
(***************************************************************************)
\* C1: createRequest against equipment whose isActive is false answers with
\* the inactive-equipment error (400) and stores no request, in every
\* reachable state, also after a Scrap transition has deactivated it: the
\* call runs, and it can take no step with another outcome.
C1_InactiveEquipmentRejected ==
  \A actor \in Creators, body \in CreateBodies :
    (Exists(body.equipment) /\ ~equipment[body.equipment].isActive) =>
      /\ ENABLED CreateRequest(actor, body)
      /\ ~ENABLED ( /\ CreateRequest(actor, body)
                    /\ ~( /\ last'.status = BadRequest
                          /\ requests' = requests
                          /\ nextId' = nextId ) )

\* a createRequest was just refused while a scrapped request's equipment is
\* inactive (Scenario D)
C1_Witness ==
  /\ last.op = "createRequest"
  /\ last.status = BadRequest
  /\ \E r \in DOMAIN requests :
       /\ requests[r].stage = "Scrap"
       /\ ~equipment[requests[r].equipment].isActive

\* C2: whenever updateStage(r, Scrap) answers success, the equipment that r
\* references is inactive right after the operation: in no reachable state
\* can the call answer success and leave that equipment active.
C2_ScrapDeactivatesEquipment ==
  \A actor \in Users, id \in DOMAIN requests :
    ~ENABLED ( /\ UpdateRequestStage(actor, id, "Scrap")
               /\ last'.status = Ok
               /\ equipment'[requests[id].equipment].isActive )

\* updateStage to Scrap has just succeeded and the request's equipment is
\* inactive
C2_Witness ==
  /\ last.op = "updateStage"
  /\ last.status = Ok
  /\ Present(last.id)
  /\ requests[last.id].stage = "Scrap"
  /\ ~equipment[requests[last.id].equipment].isActive

\* C3: (as claimed) under the request operations alone, every request whose
\* stage is Scrap references inactive equipment.
C3_ScrapImpliesInactive ==
  \A r \in DOMAIN requests :
    requests[r].stage = "Scrap" => ~equipment[requests[r].equipment].isActive

\* C4: (as claimed) Scrap is terminal: an updateStage call that targets
\* another stage of a request in Scrap is rejected, and a request in Scrap is
\* in Scrap in every later state in which it exists.
C4_ScrapTerminal ==
  [][\A id \in DOMAIN requests :
       requests[id].stage = "Scrap" =>
         /\ \A actor \in Users, stage \in Stages \ {"Scrap"} :
              UpdateRequestStage(actor, id, stage) => last'.status # Ok
         /\ id \in DOMAIN requests' => requests'[id].stage = "Scrap"]_vars

\* C5: (as claimed) updateStage from s to a different stage t that is no edge
\* of the workflow graph is refused and leaves the stage unchanged.
C5_InvalidTransitionRejected ==
  [][last'.op = "updateStage" =>
       \A actor \in Users, id \in ReqIds, stage \in Stages :
         ( /\ Present(id)
           /\ stage # requests[id].stage
           /\ ~isValidTransition(requests[id].stage, stage)
           /\ UpdateRequestStage(actor, id, stage)
           /\ last'.status # Forbidden )
         => ( /\ last'.status # Ok
              /\ requests'[id].stage = requests[id].stage )]_vars

\* C6: (as claimed) updateStage(r, r.stage) by an authorized actor answers
\* without error and changes neither the request nor any equipment.
C6_SameStageNoOp ==
  [][last'.op = "updateStage" =>
       \A actor \in Users, id \in ReqIds :
         ( /\ Present(id)
           /\ UpdateRequestStage(actor, id, requests[id].stage)
           /\ last'.status # Forbidden )
         => ( /\ last'.status = Ok
              /\ requests' = requests
              /\ equipment' = equipment )]_vars

\* C7: (as claimed) an updateStage call by an actor whose role is User
\* answers Forbidden for every request and every target stage, and changes
\* neither the request nor its equipment.
C7_UserAlwaysForbidden ==
  [][last'.op = "updateStage" =>
       \A actor \in Users, id \in ReqIds, stage \in Stages :
         ( /\ RoleOf(actor) = "User"
           /\ Present(id)
           /\ UpdateRequestStage(actor, id, stage) )
         => ( /\ last'.status = Forbidden
              /\ requests' = requests
              /\ equipment' = equipment )]_vars

\* C8: updateStage on an existing request passes the role gate exactly when
\* the actor is Admin, Manager or the request's assignedTechnician; any other
\* actor gets Forbidden and neither the request nor any equipment is written
\* (also when the target stage is Scrap): the call runs, and it can take no
\* step that breaks this.
C8_RoleGate ==
  \A actor \in Users, id \in DOMAIN requests, stage \in GivenStages :
    LET allowed == \/ RoleOf(actor) = "Admin"
                   \/ RoleOf(actor) = "Manager"
                   \/ actor = requests[id].assignedTechnician
    IN /\ ENABLED UpdateRequestStage(actor, id, stage)
       /\ ~ENABLED ( /\ UpdateRequestStage(actor, id, stage)
                     /\ ~( /\ allowed <=> last'.status # Forbidden
                           /\ ~allowed => ( /\ requests' = requests
                                            /\ equipment' = equipment ) ) )

\* an updateStage call was just refused at the gate (403 is answered for
\* existing requests only) and every equipment is still active
C8_Witness ==
  /\ last.op = "updateStage"
  /\ last.status = Forbidden
  /\ requests # << >>
  /\ \A e \in EquipIds : equipment[e].isActive

\* C9: a request stored by a successful createRequest carries the category
\* and the maintenance team of its equipment at that instant, the body's
\* technician when one is given and the equipment's defaultTechnician
\* otherwise, and the acting user as createdBy, whatever the body carries:
\* in no reachable state can a call store anything else.
C9_AutoFill ==
  \A actor \in Creators, body \in CreateBodies :
    ~ENABLED ( /\ CreateRequest(actor, body)
               /\ last'.status = Created
               /\ LET r == requests'[last'.id]
                      e == equipment[body.equipment]
                  IN ~( /\ r.equipmentCategory = e.category
                        /\ r.maintenanceTeam = e.maintenanceTeam
                        /\ r.assignedTechnician =
                             (IF body.assignedTechnician \in {Absent, Null}
                              THEN e.defaultTechnician
                              ELSE body.assignedTechnician)
                        /\ r.createdBy = actor ) )

\* a request was just created for E2 with a technician named in the body
C9_Witness ==
  /\ last.op = "createRequest"
  /\ last.status = Created
  /\ Present(last.id)
  /\ requests[last.id].equipment = "E2"
  /\ requests[last.id].assignedTechnician = "user"
  /\ requests[last.id].createdBy = "manager"

\* C10: (as claimed) every request stored by a successful createRequest has
\* stage New, whatever fields the body carries.
C10_CreatedInNew ==
  [][(last'.op = "createRequest" /\ last'.status = Created)
       => requests'[last'.id].stage = "New"]_vars

\* C11: (as claimed) createRequest with requestType Preventive and no
\* scheduledDate stores no request: every stored Preventive request has a
\* scheduledDate that is not null.
C11_PreventiveHasDate ==
  \A r \in DOMAIN requests :
    requests[r].requestType = "Preventive" => requests[r].scheduledDate # NoDate

\* C12: (as claimed) the createdBy, equipmentCategory and maintenanceTeam of
\* a stored request never change: no step of updateRequest, updateStage,
\* assignTechnician or an equipment edit alters them.
C12_SnapshotImmutable ==
  [][\A id \in DOMAIN requests \cap DOMAIN requests' :
       /\ requests'[id].createdBy = requests[id].createdBy
       /\ requests'[id].equipmentCategory = requests[id].equipmentCategory
       /\ requests'[id].maintenanceTeam = requests[id].maintenanceTeam]_vars

\* C13: for every actor and every combination of the optional filters,
\* listRequests answers with requests the actor may see only: any request for
\* Admin and Manager, requests assigned to the actor or owned by the actor's
\* team for a Technician, requests the actor created for a User.  The call
\* runs, and it can take no step that returns another request.
C13_ListOnlyVisible ==
  \A actor \in ViewUsers, query \in Queries :
    LET maySee(r) ==
          CASE RoleOf(actor) \in {"Admin", "Manager"} -> TRUE
            [] RoleOf(actor) = "Technician" ->
                 \/ r.assignedTechnician = actor
                 \/ r.maintenanceTeam = TeamOf(actor)
            [] OTHER -> r.createdBy = actor
    IN /\ ENABLED GetAllRequests(actor, query)
       /\ ~ENABLED ( /\ GetAllRequests(actor, query)
                     /\ ~( /\ last'.status = Ok
                           /\ \A id \in view' :
                                Present(id) /\ maySee(requests[id]) ) )

\* a listing has just returned nothing while a request exists that neither
\* the technician nor the user "user" may see
C13_Witness ==
  /\ last.op = "getAllRequests"
  /\ last.status = Ok
  /\ view = {}
  /\ \E r \in DOMAIN requests :
       /\ requests[r].createdBy = "user2"
       /\ requests[r].assignedTechnician = "user"
       /\ requests[r].maintenanceTeam = "T2"

\* C14: getRequest(id) by an actor whose role is User answers with the
\* request when that actor created it and with Forbidden when a different
\* User created it; for a request that does not exist every actor gets
\* NotFound.  The call runs, and it can take no step with another answer.
C14_GetByIdAccess ==
  \A actor \in ViewUsers, id \in ReqIds :
    /\ ENABLED GetRequestById(actor, id)
    /\ ~ENABLED
         ( /\ GetRequestById(actor, id)
           /\ ~( /\ ~Present(id) => last'.status = NotFound
                 /\ ( /\ Present(id)
                      /\ RoleOf(actor) = "User"
                      /\ requests[id].createdBy = actor )
                    => (last'.status = Ok /\ view' = {id})
                 /\ ( /\ Present(id)
                      /\ RoleOf(actor) = "User"
                      /\ requests[id].createdBy # actor
                      /\ RoleOf(requests[id].createdBy) = "User" )
                    => (last'.status = Forbidden /\ view' = {}) ) )

\* a getRequest was just refused while the only request was created by the
\* other User (Scenario E)
C14_Witness ==
  /\ last.op = "getRequestById"
  /\ last.status = Forbidden
  /\ \E r \in DOMAIN requests : requests[r].createdBy = "user2"

\* C15: (as claimed) for every actor the calendar view returns exactly the
\* scheduled requests that the actor may list, and the overdue view returns
\* exactly the overdue requests that the actor may list.
C15_ViewsFollowListing ==
  [][\A actor \in ViewUsers :
       /\ GetCalendarRequests(actor, NoRange) =>
            view' = {id \in getAllRequests(actor, NoQuery) :
                       requests[id].scheduledDate # NoDate}
       /\ \A now \in Clock :
            GetOverdueRequests(actor, now) =>
              view' = {id \in getAllRequests(actor, NoQuery) :
                         isOverdue(requests[id], now)}]_vars

\* C16: assignTechnician with a technician id answers Forbidden to
\* Technician and User actors, NotFound to Admin and Manager for a request
\* that does not exist, changing nothing in both cases, and otherwise
\* succeeds and sets assignedTechnician to the given id, leaving every other
\* field of the request, every other request and every equipment as they
\* were.  The call runs, and it can take no step with another outcome.
C16_AssignFrame ==
  \A actor \in Users, id \in ReqIds, t \in {"tech", "user"} :
    /\ ENABLED AssignTechnician(actor, id, t)
    /\ ~ENABLED
         ( /\ AssignTechnician(actor, id, t)
           /\ ~( /\ equipment' = equipment
                 /\ IF RoleOf(actor) \notin {"Admin", "Manager"}
                    THEN last'.status = Forbidden /\ requests' = requests
                    ELSE IF ~Present(id)
                    THEN last'.status = NotFound /\ requests' = requests
                    ELSE /\ last'.status = Ok
                         /\ DOMAIN requests' = DOMAIN requests
                         /\ \A r \in DOMAIN requests :
                              requests'[r] =
                                IF r = id
                                THEN [requests[r] EXCEPT !.assignedTechnician = t]
                                ELSE requests[r] ) )

\* a technician was just assigned to a request that is past its first stage
C16_Witness ==
  /\ last.op = "assignTechnician"
  /\ last.status = Ok
  /\ Present(last.id)
  /\ requests[last.id].assignedTechnician = "user"
  /\ requests[last.id].stage = "Repaired"

C18_AutoFill ==
  \A actor \in ViewUsers, e \in EquipIds \cup {NoSuchEquipment} :
    /\ ENABLED GetEquipmentAutoFill(actor, e)
    /\ ~ENABLED
         ( /\ GetEquipmentAutoFill(actor, e)
           /\ ~( /\ equipment' = equipment
                 /\ requests' = requests
                 /\ nextId' = nextId
                 /\ IF e \notin DOMAIN equipment
                    THEN last'.status = NotFound
                    ELSE IF ~equipment[e].isActive
                    THEN last'.status = BadRequest
                    ELSE /\ last'.status = Ok
                         /\ view' = {[equipmentCategory |-> equipment[e].category,
                                      maintenanceTeam |-> equipment[e].maintenanceTeam,
                                      defaultTechnician |->
                                        equipment[e].defaultTechnician]}
                 /\ last'.status = Ok <=> equipmentCheck(e) = Ok ) )

\* an auto-fill was just refused for equipment that a Scrap transition
\* deactivated
C18_Witness ==
  /\ last.op = "getEquipmentAutoFill"
  /\ last.status = BadRequest
  /\ \E r \in DOMAIN requests :
       /\ requests[r].stage = "Scrap"
       /\ ~equipment[requests[r].equipment].isActive

C20_DeactivationIrreversible ==
  [][\A e \in EquipIds :
       ~equipment[e].isActive => ~equipment'[e].isActive]_vars

\* a request that was in Scrap has just been put back to New by
\* updateRequest and its equipment is still inactive
C20_Witness ==
  /\ last.op = "updateRequest"
  /\ last.status = Ok
  /\ Present(last.id)
  /\ requests[last.id].stage = "New"
  /\ ~equipment[requests[last.id].equipment].isActive

\* C22: (as claimed) every stored equipment record has exactly one of
\* department and assignedEmployee set, the one that matches its
\* ownershipType, after any sequence of equipment create and update
\* operations.
C22_OwnershipExactlyOne ==
  \A e \in DOMAIN equipment :
    LET doc == equipment[e]
        departmentSet == doc.department \notin {Absent, Null, ""}
        employeeSet == doc.assignedEmployee \notin {Absent, Null, ""}
    IN /\ doc.ownershipType = "Department" => (departmentSet /\ ~employeeSet)
       /\ doc.ownershipType = "Employee" => (employeeSet /\ ~departmentSet)
       /\ doc.ownershipType \in {"Department", "Employee"}

\* C21: (as claimed) under every interleaving of a createRequest against
\* equipment E with an updateStage to Scrap of another request on E, no
\* request is stored for E after E's isActive has become false: every step
\* that stores a request stores it for equipment that is active.
C21_StoredForActiveEquipment ==
  [][\A id \in DOMAIN requests' \ DOMAIN requests :
       equipment[requests'[id].equipment].isActive]_vars

\* C24: in updateStage to Scrap the equipment is deactivated before the
\* stage is written: when the equipment write fails the call answers with an
\* error and neither the stage nor the equipment is written; when the
\* process stops between the two writes the equipment is inactive and the
\* stage is as it was; and no step writes the stage Scrap to a request whose
\* existing equipment is active after that step.
C24_DeactivateBeforeStage ==
  [][\A slot \in Slots :
       /\ StageDeactivateFails(slot) =>
            /\ requests' = requests
            /\ equipment' = equipment
            /\ last'.status = ServerError
       /\ StageStop(slot) =>
            /\ requests' = requests
            /\ LET e == inflight[slot].request.equipment
               IN e \in DOMAIN equipment' => ~equipment'[e].isActive
       /\ \A id \in DOMAIN requests \cap DOMAIN requests' :
            ( /\ requests'[id].stage = "Scrap"
              /\ requests[id].stage # "Scrap"
              /\ requests'[id].equipment \in DOMAIN equipment' )
            => ~equipment'[requests'[id].equipment].isActive]_vars

\* no invocation is in progress, and a request is in its first stage while
\* its equipment is inactive: an updateStage to Scrap stopped between its
\* two writes
C24_Witness ==
  /\ \A slot \in Slots : inflight[slot] = Idle
  /\ \E r \in DOMAIN requests :
       /\ requests[r].stage = "New"
       /\ ~equipment[requests[r].equipment].isActive

\* C25: (as claimed) when two updateStage calls on the same request overlap,
\* one to Scrap and one to another stage, the state after both have
\* completed is consistent: equipment is inactive only if the request's
\* stage is Scrap.  The step looked at is the stage write that completes
\* the last call in progress, by a call that read the request before the
\* other call's stage write.
C25_ConcurrentStagesConsistent ==
  [][\A slot \in Slots :
       ( /\ StageSave(slot)
         /\ \A s \in Slots : inflight'[s] = Idle
         /\ Present(inflight[slot].id)
         /\ inflight[slot].request.stage # requests[inflight[slot].id].stage )
       => \A r \in DOMAIN requests' :
            ~equipment'[requests'[r].equipment].isActive
              => requests'[r].stage = "Scrap"]_vars

(***************************************************************************)
(* C23: isValidTransition(from, to) is true, among the pairs of distinct   *)
(* stages, exactly for New -> In Progress, In Progress -> Repaired and for *)
(* to = Scrap from New, In Progress and Repaired; it is false for every    *)
(* pair that starts at Scrap, for every pair from Repaired to a stage      *)
(* other than Scrap, and for every other pair.  The calls the board's drop *)
(* handler has sent are therefore calls along these pairs.                 *)
(***************************************************************************)
C23_TransitionTable ==
  /\ \A from \in Stages, to \in Stages :
       from # to =>
         ( isValidTransition(from, to)
           <=> \/ (from = "New" /\ to = "In Progress")
               \/ (from = "In Progress" /\ to = "Repaired")
               \/ (to = "Scrap" /\ from \in {"New", "In Progress", "Repaired"}) )
  /\ \A from \in Stages :
       /\ ~isValidTransition("Scrap", from)
       /\ from # "Scrap" => ~isValidTransition("Repaired", from)
  /\ \A s \in DOMAIN client.calls :
       client.calls[s].origin = "kanban"
       => <<client.calls[s].oldStage, client.calls[s].newStage>> \in
            { <<"New", "In Progress">>, <<"In Progress", "Repaired">>,
              <<"New", "Scrap">>, <<"In Progress", "Scrap">>,
              <<"Repaired", "Scrap">> }

\* the board has sent the call of a drop from In Progress on Repaired
C23_Witness ==
  \E s \in DOMAIN client.calls :
    /\ client.calls[s].origin = "kanban"
    /\ client.calls[s].oldStage = "In Progress"
    /\ client.calls[s].newStage = "Repaired"

(***************************************************************************)
(* C26: on the Kanban board and on the detail page, a stage-update call    *)
(* with target Scrap is sent only in the step in which the user confirms   *)
(* the scrap dialog that is open for that request; closing the dialog      *)
(* sends no call and leaves the displayed stage as it is.                  *)
(***************************************************************************)
C26_ScrapOnlyAfterConfirm ==
  [][/\ ( /\ Len(client'.calls) > Len(client.calls)
            /\ client'.calls[Len(client'.calls)].newStage = "Scrap" )
          => LET call == client'.calls[Len(client'.calls)]
             IN \/ /\ client.page = "kanban"
                   /\ client.scrapDialog.isOpen
                   /\ client.scrapDialog.requestId = call.id
                   /\ ~client'.scrapDialog.isOpen
                \/ /\ client.page = "detail"
                   /\ client.scrapWarningDialog
                   /\ client.request.id = call.id
                   /\ ~client'.scrapWarningDialog
     /\ CloseScrapDialog
          => (client'.calls = client.calls /\ client'.board = client.board)
     /\ CloseScrapWarning
          => (client'.calls = client.calls /\ client'.request = client.request)
    ]_vars

\* the backend has scrapped the request on a call the detail page sent after
\* the confirmation, and the call waits for its continuation
C26_Witness ==
  \E s \in DOMAIN client.calls :
    /\ client.calls[s].origin = "detail"
    /\ client.calls[s].newStage = "Scrap"
    /\ client.calls[s].state = "resolved"
    /\ requests[client.calls[s].id].stage = "Scrap"

(***************************************************************************)
(* C27: the detail page's stage modal sends a stage update exactly when    *)
(* the board's drop handler would: for a pair (from, to) with from # to    *)
(* and isValidTransition(from, to), where from is the stage the page shows *)
(***************************************************************************)
C27_SameTransitions ==
  [][( /\ Len(client'.calls) > Len(client.calls)
       /\ client'.calls[Len(client'.calls)].origin = "detail" )
     => LET call == client'.calls[Len(client'.calls)]
        IN /\ call.oldStage # call.newStage
           /\ isValidTransition(call.oldStage, call.newStage)]_vars

(***************************************************************************)
(* C28: when every stage-update call the board has sent is completed, the  *)
(* stage the board holds for each request is the stage the backend stores  *)
(***************************************************************************)
C28_BoardConverges ==
  (client.page = "kanban" /\ settled)
  => \A id \in DOMAIN client.board :
       Present(id) => client.board[id] = requests[id].stage

(***************************************************************************)
(* C29: for every actor and every stored request the frontend helpers      *)
(* permit update-stage, delete-request and assign-technician exactly when  *)
(* the backend's gates accept the operation from that actor                *)
(***************************************************************************)
C29_HelpersMatchGates ==
  \A actor \in Users, id \in DOMAIN requests :
    /\ canUpdateStage(RoleOf(actor)) <=> canUpdate(actor, requests[id])
    /\ canDeleteMaintenanceRequest(RoleOf(actor)) <=> adminAndManager(actor)
    /\ canAssignTechnician(RoleOf(actor)) <=> adminAndManager(actor)

(***************************************************************************)
(* C30: after any sequence of addTeamMember and removeTeamMember calls a   *)
(* user's team reference is T exactly when the user is in T.members, and   *)
(* no user is twice in the members of a team                               *)
(***************************************************************************)
C30_MembershipConsistent ==
  /\ \A u \in TeamUsers, t \in Teams :
       (teams.userTeam[u] = t) <=> includes(teams.members[t], u)
  /\ \A t \in Teams : \A i, j \in DOMAIN teams.members[t] :
       i # j => teams.members[t][i] # teams.members[t][j]

====
